---- MODULE Spec2Model ----
(***************************************************************************)
(* Density-fitting force provider                                          *)
(* (src/gromacs/applied_forces/densityfittingforceprovider.cpp).           *)
(*                                                                         *)
(* One DensityFittingForceProvider::Impl per worker (MPI rank).  The host  *)
(* hands every worker the same step; each worker runs calculateForces on   *)
(* its own local atoms, its own force array and its own energy terms.  The *)
(* only coupling between workers is gmx_sumf, a blocking all-reduce of the *)
(* density grid.                                                           *)
(*                                                                         *)
(* The host runs the workers in lockstep: it starts evaluation k + 1 on    *)
(* all workers once all of them have returned from evaluation k.  Inside   *)
(* an evaluation the workers run independently; a worker's steps are the   *)
(* stretches of calculateForces between its return points and the two      *)
(* ends of gmx_sumf, since everything else touches its private memory.     *)
(*                                                                         *)
(* Reals are modelled by integers: the lattice is one-dimensional, the     *)
(* truncated Gaussian has the integer weights 1 2 1, and the scale of the  *)
(* lattice transformation divides every raw force exactly.  The similarity *)
(* is |reference|^2 - |reference - grid|^2 up to a constant, its gradient  *)
(* 2 (reference - grid).                                                   *)
(***************************************************************************)
EXTENDS Integers, Sequences, FiniteSets, TLC

\* ------------------------------------------------------------------ bounds
\* number of force evaluations (MD steps) the host runs
MaxSteps == 2
\* number of atoms in the density-fitting group, over all workers
NumParticles == 4

\* ------------------------------------------------- configuration and inputs
\* numbers of workers (cr_.nnodes) the runs are started with
WorkerCounts == {1, 2, 4}
\* values of parameters_.forceConstant_
ForceConstants == {3}
\* simulation-space coordinates an atom can have (one axis)
Positions == {0, 1}
\* the cells of the density lattice, referenceDensity.extents()
Cells == 1 .. 5
\* the fixed reference density: a truncated Gaussian centred on cell 3
ReferenceDensity == [c \in Cells |-> IF c = 3 THEN 2 ELSE IF c \in {2, 4} THEN 1 ELSE 0]
\* transformationToDensityLattice_: translate, then scale
Translation == 1
Scale == 2
\* the entries of enerd_.term; F_COM_PULL is the slot the provider uses
EnergyTerms == {"F_COM_PULL", "F_EPOT"}

Particles == 1 .. NumParticles
\* local atom indices of one worker; at least one of them is never restrained
Slots == 1 .. (NumParticles + 1)

VARIABLES
    nnodes,                 \* cr_.nnodes, the number of workers
    forceConstant,          \* parameters_.forceConstant_
    step,                   \* number of evaluations the host has started
    pc,                     \* per worker: position inside calculateForces
    localIndex,             \* per worker: localAtomSet_.localIndex()
    x,                      \* per worker: forceProviderInput.x_
    massT,                  \* per worker: forceProviderInput.mdatoms_
    force,                  \* per worker: forceWithVirial_.force_
    term,                   \* per worker: enerd_.term
    transformedCoordinates, \* per worker: transformedCoordinates_
    amplitudes,             \* per worker: the vector amplitudeLookup_ returned
    forces,                 \* per worker: forces_
    density,                \* per worker: the grid of gaussTransform_
    densityDerivative,      \* per worker: the gradient measure_ returned
    sumCalls,               \* per worker: number of gmx_sumf calls made
    sumf                    \* per worker: the contribution handed to gmx_sumf

vars == << nnodes, forceConstant, step, pc, localIndex, x, massT, force, term,
           transformedCoordinates, amplitudes, forces, density,
           densityDerivative, sumCalls, sumf >>

Workers == 1 .. nnodes

\* --------------------------------------------------------------- helpers
ZeroGrid == [c \in Cells |-> 0]

RECURSIVE SumTo(_, _)
\* f[1] + ... + f[n]
SumTo(f, n) == IF n = 0 THEN 0 ELSE f[n] + SumTo(f, n - 1)

\* sum of f over the cells of the lattice
SumOverCells(f) == SumTo(f, Cardinality(Cells))

\* localAtomSet_.numAtomsLocal()
numAtomsLocal(w) == Len(localIndex[w])

\* PAR(cr): more than one rank
PAR == nnodes > 1

\* TranslateAndScale::operator(): translate first, then scale
TranslateAndScale(r) == (r + Translation) * Scale

\* ScaleCoordinates::inverseIgnoringZeroScale
inverseIgnoringZeroScale(f) == IF Scale = 0 THEN f ELSE f \div Scale

\* the truncated, un-normalised Gaussian of the spread kernel at offset d
Kernel(d) == IF d = 0 THEN 2 ELSE IF d \in {-1, 1} THEN 1 ELSE 0

\* derivative of the kernel with respect to the atom position, offset d
KernelDerivative(d) == d * Kernel(d)

\* GaussTransform3D::add: spread one atom on the grid
GaussAdd(grid, r, a) == [c \in Cells |-> grid[c] + a * Kernel(c - r)]

RECURSIVE SpreadFrom(_, _, _, _)
\* the loop of lines 159-163 from element i on
SpreadFrom(grid, rs, as, i) ==
    IF i > Len(rs) THEN grid
    ELSE SpreadFrom(GaussAdd(grid, rs[i], as[i]), rs, as, i + 1)

\* DensitySimilarityMeasure::similarity
Similarity(grid) ==
    SumOverCells([c \in Cells |-> grid[c] * (2 * ReferenceDensity[c] - grid[c])])

\* DensitySimilarityMeasure::gradient: d similarity / d grid, cell by cell
Gradient(grid) == [c \in Cells |-> 2 * (ReferenceDensity[c] - grid[c])]

\* DensityFittingForce::evaluateForce
evaluateForce(r, a, g) ==
    a * SumOverCells([c \in Cells |-> g[c] * KernelDerivative(c - r)])

\* DensityFittingAmplitudeLookup::operator(): the mass of every listed atom
amplitudeLookup(mdatoms, idx) == [i \in 1 .. Len(idx) |-> mdatoms[idx[i]]]

\* what earlier force providers left in the host's force array
PreForce(w) == [s \in Slots |-> 10 * w + s]
\* what earlier contributions left in the host's energy terms
PreTerm(w) == [t \in EnergyTerms |-> IF t = "F_COM_PULL" THEN 100 + w ELSE 7]

\* the atoms' masses (the amplitude of atom p)
Mass(p) == 1 + (p % 2)

\* the local index the host gives particle p: the group's atoms are listed
\* in group order, their local indices run the other way
SlotOf(p) == NumParticles + 2 - p

\* the particles of worker w under the assignment owner, in group order
RECURSIVE SliceFrom(_, _, _)
SliceFrom(owner, w, p) ==
    IF p > NumParticles THEN << >>
    ELSE IF owner[p] = w
         THEN << SlotOf(p) >> \o SliceFrom(owner, w, p + 1)
         ELSE SliceFrom(owner, w, p + 1)

\* the splits of the group into contiguous slices, one per worker
Splits(n) ==
    { o \in [Particles -> 1 .. n] :
        \A p \in Particles, q \in Particles : p <= q => o[p] <= o[q] }

\* the coordinates of the group's atoms: the group is numbered along the
\* axis, so that a worker's slice is a stretch of the axis
Placements ==
    { pos \in [Particles -> Positions] :
        \A p \in Particles, q \in Particles : p <= q => pos[p] <= pos[q] }

\* the particle in slot s, or 0
ParticleAt(s) ==
    IF \E p \in Particles : SlotOf(p) = s
    THEN CHOOSE p \in Particles : SlotOf(p) = s
    ELSE 0

\* the local atom set a provider is constructed with: before the host has
\* distributed the atoms, every worker lists the whole group
GroupIndex == [i \in 1 .. NumParticles |-> i]

\* ------------------------------------------------------------------- Init
\* the state after the constructor (lines 118-134): transformedCoordinates_
\* is sized to the local atom count, forces_ is empty, the grid is zero
Init ==
    /\ nnodes \in WorkerCounts
    /\ forceConstant \in ForceConstants
    /\ step = 0
    /\ pc = [w \in Workers |-> "idle"]
    /\ localIndex = [w \in Workers |-> GroupIndex]
    /\ x = [w \in Workers |-> [s \in Slots |-> 0]]
    /\ massT = [w \in Workers |-> [s \in Slots |-> 1]]
    /\ force = [w \in Workers |-> PreForce(w)]
    /\ term = [w \in Workers |-> PreTerm(w)]
    /\ transformedCoordinates = [w \in Workers |-> [i \in 1 .. NumParticles |-> 0]]
    /\ amplitudes = [w \in Workers |-> << >>]
    /\ forces = [w \in Workers |-> << >>]
    /\ density = [w \in Workers |-> ZeroGrid]
    /\ densityDerivative = [w \in Workers |-> ZeroGrid]
    /\ sumCalls = [w \in Workers |-> 0]
    /\ sumf = [w \in Workers |-> ZeroGrid]

\* ---------------------------------------------------------------- actions
\* The host starts the next evaluation on every worker (lines 218-222): it
\* has distributed the group over the workers, filled in the coordinates
\* and masses, and hands over the force array and the energy terms.
StartStep ==
    /\ step < MaxSteps
    /\ \A w \in Workers : pc[w] \in {"idle", "done"}
    /\ \E owner \in Splits(nnodes), pos \in Placements :
         /\ localIndex' = [w \in Workers |-> SliceFrom(owner, w, 1)]
         /\ x' = [w \in Workers |-> [s \in Slots |->
                    IF ParticleAt(s) # 0 /\ owner[ParticleAt(s)] = w
                    THEN pos[ParticleAt(s)] ELSE 0]]
         /\ massT' = [w \in Workers |-> [s \in Slots |->
                    IF ParticleAt(s) # 0 THEN Mass(ParticleAt(s)) ELSE 1]]
    /\ force' = [w \in Workers |-> PreForce(w)]
    /\ term' = [w \in Workers |-> PreTerm(w)]
    /\ step' = step + 1
    /\ pc' = [w \in Workers |-> "called"]
    /\ UNCHANGED << nnodes, forceConstant, transformedCoordinates, amplitudes,
                    forces, density, densityDerivative, sumCalls, sumf >>

\* ReturnNoAtoms with the early return placed after the energy term: the
\* worker without atoms adds the energy of the grid it still holds
ReturnNoAtoms_AfterEnergy(w) ==
    /\ pc[w] = "called"
    /\ numAtomsLocal(w) = 0
    /\ term' = [term EXCEPT ![w]["F_COM_PULL"] =
                   @ + (0 - Similarity(density[w])) * forceConstant]
    /\ pc' = [pc EXCEPT ![w] = "done"]
    /\ UNCHANGED << nnodes, forceConstant, step, localIndex, x, massT, force,
                    transformedCoordinates, amplitudes, forces, density,
                    densityDerivative, sumCalls, sumf >>

\* lines 139-143: no density fitting atoms on this node, return
ReturnNoAtoms(w) ==
    /\ pc[w] = "called"
    /\ numAtomsLocal(w) = 0
    /\ pc' = [pc EXCEPT ![w] = "done"]
    /\ UNCHANGED << nnodes, forceConstant, step, localIndex, x, massT, force, term,
                    transformedCoordinates, amplitudes, forces, density,
                    densityDerivative, sumCalls, sumf >>

\* PickAndTransform that copies the coordinates in reverse order of the
\* index list
PickAndTransform_Reversed(w) ==
    [i \in 1 .. numAtomsLocal(w) |->
        TranslateAndScale(x[w][localIndex[w][numAtomsLocal(w) + 1 - i]])]

\* lines 144-152: resize, pick and copy the coordinates, transform them
PickAndTransform(w) ==
    [i \in 1 .. numAtomsLocal(w) |-> TranslateAndScale(x[w][localIndex[w][i]])]

\* SpreadAtoms without the setZero of line 155
SpreadAtoms_NoSetZero(w) ==
    SpreadFrom(density[w], PickAndTransform(w), amplitudeLookup(massT[w], localIndex[w]), 1)

\* lines 154-163: zero the grid and spread the local atoms on it
SpreadAtoms(w) ==
    SpreadFrom(ZeroGrid, PickAndTransform(w), amplitudeLookup(massT[w], localIndex[w]), 1)

\* SpreadAndEnterSum without the gmx_sumf call of lines 169-170
SpreadAndEnterSum_NoSum(w) ==
    /\ pc[w] = "called"
    /\ numAtomsLocal(w) # 0
    /\ PAR
    /\ transformedCoordinates' = [transformedCoordinates EXCEPT ![w] = PickAndTransform(w)]
    /\ amplitudes' = [amplitudes EXCEPT ![w] = amplitudeLookup(massT[w], localIndex[w])]
    /\ density' = [density EXCEPT ![w] = SpreadAtoms(w)]
    /\ pc' = [pc EXCEPT ![w] = "summed"]
    /\ UNCHANGED << nnodes, forceConstant, step, localIndex, x, massT, force, term,
                    forces, densityDerivative, sumCalls, sumf >>

\* lines 144-171, PAR true: coordinates to the lattice, spread the atoms,
\* enter gmx_sumf with the grid
SpreadAndEnterSum(w) ==
    /\ pc[w] = "called"
    /\ numAtomsLocal(w) # 0
    /\ PAR
    /\ transformedCoordinates' = [transformedCoordinates EXCEPT ![w] = PickAndTransform(w)]
    /\ amplitudes' = [amplitudes EXCEPT ![w] = amplitudeLookup(massT[w], localIndex[w])]
    /\ density' = [density EXCEPT ![w] = SpreadAtoms(w)]
    /\ sumCalls' = [sumCalls EXCEPT ![w] = @ + 1]
    /\ sumf' = [sumf EXCEPT ![w] = SpreadAtoms(w)]
    /\ pc' = [pc EXCEPT ![w] = "insum"]
    /\ UNCHANGED << nnodes, forceConstant, step, localIndex, x, massT, force, term,
                    forces, densityDerivative >>

\* lines 144-171, PAR false: coordinates to the lattice, spread the atoms,
\* no communication
SpreadAndSkipSum(w) ==
    /\ pc[w] = "called"
    /\ numAtomsLocal(w) # 0
    /\ ~PAR
    /\ transformedCoordinates' = [transformedCoordinates EXCEPT ![w] = PickAndTransform(w)]
    /\ amplitudes' = [amplitudes EXCEPT ![w] = amplitudeLookup(massT[w], localIndex[w])]
    /\ density' = [density EXCEPT ![w] = SpreadAtoms(w)]
    /\ pc' = [pc EXCEPT ![w] = "summed"]
    /\ UNCHANGED << nnodes, forceConstant, step, localIndex, x, massT, force, term,
                    forces, densityDerivative, sumCalls, sumf >>

\* the element-wise sum of the contributions of all workers
GlobalSum == [c \in Cells |-> SumTo([v \in Workers |-> sumf[v][c]], nnodes)]

\* gmx_sumf returns (line 170): every worker has made this call, the grid
\* holds the sum of all contributions
LeaveSum(w) ==
    /\ pc[w] = "insum"
    /\ \A v \in Workers : sumCalls[v] >= sumCalls[w]
    /\ density' = [density EXCEPT ![w] = GlobalSum]
    /\ pc' = [pc EXCEPT ![w] = "summed"]
    /\ UNCHANGED << nnodes, forceConstant, step, localIndex, x, massT, force, term,
                    transformedCoordinates, amplitudes, forces,
                    densityDerivative, sumCalls, sumf >>

\* lines 173-189: the derivative of the similarity on the grid, one force
\* per atom from it, scaled back to simulation space
DensityForces(w) ==
    [i \in 1 .. numAtomsLocal(w) |->
        inverseIgnoringZeroScale(
            evaluateForce(transformedCoordinates[w][i], amplitudes[w][i],
                          Gradient(density[w])))]

RECURSIVE AddForcesFrom_Overwrite(_, _, _, _, _)
\* AddForcesFrom with = for += in line 194
AddForcesFrom_Overwrite(f, idx, fs, k, i) ==
    IF i > Len(idx) THEN f
    ELSE AddForcesFrom_Overwrite([f EXCEPT ![idx[i]] = k * fs[i]], idx, fs, k, i + 1)

RECURSIVE AddForcesFrom_ByPosition(_, _, _, _, _)
\* AddForcesFrom that indexes the force array by the position in the index
\* list instead of by the local atom index
AddForcesFrom_ByPosition(f, idx, fs, k, i) ==
    IF i > Len(idx) THEN f
    ELSE AddForcesFrom_ByPosition([f EXCEPT ![i] = @ + k * fs[i]], idx, fs, k, i + 1)

RECURSIVE AddForcesFrom(_, _, _, _, _)
\* the loop of lines 191-197 from element i on
AddForcesFrom(f, idx, fs, k, i) ==
    IF i > Len(idx) THEN f
    ELSE AddForcesFrom([f EXCEPT ![idx[i]] = @ + k * fs[i]], idx, fs, k, i + 1)

\* lines 173-197: compute the gradient and the forces, add the forces to the
\* host's force array
CalculateForces(w) ==
    /\ pc[w] = "summed"
    /\ densityDerivative' = [densityDerivative EXCEPT ![w] = Gradient(density[w])]
    /\ forces' = [forces EXCEPT ![w] = DensityForces(w)]
    /\ force' = [force EXCEPT ![w] =
                    AddForcesFrom(force[w], localIndex[w], DensityForces(w),
                                  forceConstant, 1)]
    /\ pc' = [pc EXCEPT ![w] = "forced"]
    /\ UNCHANGED << nnodes, forceConstant, step, localIndex, x, massT, term,
                    transformedCoordinates, amplitudes, density, sumCalls, sumf >>

\* Energy without the minus sign of line 201
Energy_WithoutMinus(w) == Similarity(density[w]) * forceConstant

\* lines 199-201: the potential energy of the restraint
Energy(w) == (0 - Similarity(density[w])) * forceConstant

\* AddEnergy that adds the energy on the first worker only
AddEnergy_FirstWorkerOnly(w) ==
    /\ pc[w] = "forced"
    /\ term' = [term EXCEPT ![w]["F_COM_PULL"] =
                   IF w = 1 THEN @ + (0 - Similarity(density[w])) * forceConstant ELSE @]
    /\ pc' = [pc EXCEPT ![w] = "done"]
    /\ UNCHANGED << nnodes, forceConstant, step, localIndex, x, massT, force,
                    transformedCoordinates, amplitudes, forces, density,
                    densityDerivative, sumCalls, sumf >>

\* lines 199-203: add the energy to the F_COM_PULL term and return
AddEnergy(w) ==
    /\ pc[w] = "forced"
    /\ term' = [term EXCEPT ![w]["F_COM_PULL"] = @ + Energy(w)]
    /\ pc' = [pc EXCEPT ![w] = "done"]
    /\ UNCHANGED << nnodes, forceConstant, step, localIndex, x, massT, force,
                    transformedCoordinates, amplitudes, forces, density,
                    densityDerivative, sumCalls, sumf >>

\* one step of worker w inside calculateForces
WorkerStep(w) ==
    \/ ReturnNoAtoms(w)
    \/ SpreadAndEnterSum(w)
    \/ SpreadAndSkipSum(w)
    \/ LeaveSum(w)
    \/ CalculateForces(w)
    \/ AddEnergy(w)

Next ==
    \/ StartStep
    \/ \E w \in Workers : ReturnNoAtoms(w)
    \/ \E w \in Workers : SpreadAndEnterSum(w)
    \/ \E w \in Workers : SpreadAndSkipSum(w)
    \/ \E w \in Workers : LeaveSum(w)
    \/ \E w \in Workers : CalculateForces(w)
    \/ \E w \in Workers : AddEnergy(w)

Spec == Init /\ [][Next]_vars

\* every worker process keeps running: a worker that can take a step of
\* calculateForces eventually takes one
FairSpec == Spec /\ \A w \in 1 .. 4 : WF_vars(w \in Workers /\ WorkerStep(w))

\* ------------------------------------------------- reference computations
\* Written from the host's inputs of the current evaluation only (x, massT,
\* localIndex, forceConstant): none of them reads the provider's scratch.

\* the set of local indices worker w is restrained on
Restrained(w) == { localIndex[w][i] : i \in 1 .. Len(localIndex[w]) }

\* the lattice coordinate of the atom in slot s of worker w
LatticeCoordinate(w, s) == (x[w][s] + Translation) * Scale

\* the grid worker w rasterizes from its own atoms, starting from zero
LocalDensity(w) ==
    [c \in Cells |->
        SumTo([i \in 1 .. Len(localIndex[w]) |->
                  massT[w][localIndex[w][i]]
                    * Kernel(c - LatticeCoordinate(w, localIndex[w][i]))],
              Len(localIndex[w]))]

RECURSIVE CellsUpTo(_, _)
\* the values f[1], ..., f[n] of a grid, as a function on 1 .. n
CellsUpTo(f, n) == IF n = 0 THEN << >> ELSE Append(CellsUpTo(f, n - 1), f[n])

\* the grid a single worker holding all atoms of the group rasterizes
SingleWorkerDensity ==
    CellsUpTo([c \in Cells |-> SumTo([w \in Workers |-> LocalDensity(w)[c]], nnodes)],
              Cardinality(Cells))

\* the force of the restraint on the atom in slot s of worker w, in
\* simulation space, for the grid
ForceOnAtom(w, s, grid) ==
    forceConstant *
      ((massT[w][s] *
          SumOverCells([c \in Cells |->
                          2 * (ReferenceDensity[c] - grid[c])
                            * KernelDerivative(c - LatticeCoordinate(w, s))]))
        \div Scale)

\* the energy of the restraint for the grid
EnergyOf(grid) ==
    (0 - SumOverCells([c \in Cells |-> grid[c] * (2 * ReferenceDensity[c] - grid[c])]))
      * forceConstant

\* worker w is inside an evaluation, past the coordinate copy of line 144
InEvaluation(w) == pc[w] \in {"insum", "summed", "forced"}

\* worker w has returned from an evaluation
Returned(w) == pc[w] = "done"

\* --------------------------------------------------------------- claims

\* C1: in a multi-worker run every worker calls gmx_sumf exactly once in
\* every evaluation, workers without local atoms included: a worker that
\* has returned from the step-th evaluation has made step calls, a worker
\* past the reduction point of it too, and no two workers that returned
\* from the same evaluation differ in their number of calls.
C1_ReductionOncePerEvaluation ==
    PAR =>
      /\ \A w \in Workers :
            pc[w] \in {"summed", "forced", "done"} => sumCalls[w] = step
      /\ \A v \in Workers, w \in Workers :
            (Returned(v) /\ Returned(w)) => sumCalls[v] = sumCalls[w]

\* C2: under fair scheduling every worker that has started an evaluation
\* eventually returns from it.  Stated for the evaluations before the last
\* one the host runs, so that no behaviour ends for want of further steps.
C2_EveryEvaluationCompletes ==
    \A w \in 1 .. 4 :
        (w \in Workers /\ pc[w] = "called" /\ step < MaxSteps)
            ~> (w \in Workers /\ pc[w] = "done")

\* C3: when a worker is about to compute the similarity gradient, its grid
\* is the grid a single worker holding all atoms would have rasterized, and
\* equal to that of every other worker at or past that point; with one
\* worker no reduction call is made and the grid is the local one.
C3_ReducedDensityIsComplete ==
    /\ (\E w \in Workers : pc[w] = "summed") =>
          LET complete == SingleWorkerDensity
          IN  \A w \in Workers : pc[w] = "summed" => density[w] = complete
    /\ \A v \in Workers, w \in Workers :
          (pc[v] \in {"summed", "forced"} /\ pc[w] \in {"summed", "forced"})
             => density[v] = density[w]
    /\ ~PAR => \A w \in Workers : sumCalls[w] = 0 /\ (pc[w] = "summed" => density[w] = LocalDensity(w))

\* C3 witness: four workers, each with a slice, all about to compute the
\* gradient from a grid that is not their local one
C3_Witness ==
    /\ nnodes = 4
    /\ \A w \in Workers : pc[w] = "summed" /\ density[w] # LocalDensity(w)

\* C4: a worker without local atoms returns with the force array and every
\* energy term as the host handed them over.
C4_ZeroParticleNoOp ==
    \A w \in Workers :
        (Returned(w) /\ numAtomsLocal(w) = 0)
           => (force[w] = PreForce(w) /\ term[w] = PreTerm(w))

\* C4 witness: a worker has returned from an evaluation without local atoms
C4_Witness ==
    \E w \in Workers : Returned(w) /\ numAtomsLocal(w) = 0 /\ step >= 1

\* C5: after the force loop the force entry of the i-th restrained index is
\* its earlier value plus forceConstant times the inverse-scaled force of
\* the i-th transformed coordinate and the i-th amplitude.
C5_ForceAccumulation ==
    \A w \in Workers :
        (pc[w] \in {"forced", "done"} /\ numAtomsLocal(w) > 0) =>
            \A i \in 1 .. numAtomsLocal(w) :
                force[w][localIndex[w][i]] =
                    PreForce(w)[localIndex[w][i]]
                      + forceConstant *
                          ((amplitudes[w][i] *
                              SumOverCells([c \in Cells |->
                                          densityDerivative[w][c]
                                            * KernelDerivative(c - transformedCoordinates[w][i])]))
                            \div Scale)

\* C5 witness: forces were added for two atoms with different forces, whose
\* local indices are not their positions in the index list
C5_Witness ==
    \E w \in Workers :
        /\ pc[w] = "forced"
        /\ numAtomsLocal(w) >= 2
        /\ forces[w][1] # forces[w][2]
        /\ forces[w][1] # 0
        /\ localIndex[w][1] # 1

\* C6: an evaluation with local atoms adds -similarity * forceConstant to
\* F_COM_PULL exactly once, at its end, the similarity being that of the
\* grid the gradient was computed from.
C6_EnergyAccumulation ==
    \A w \in Workers :
        /\ (pc[w] = "forced" \/ (Returned(w) /\ numAtomsLocal(w) > 0))
              => densityDerivative[w] = [c \in Cells |-> 2 * (ReferenceDensity[c] - density[w][c])]
        /\ InEvaluation(w) => term[w]["F_COM_PULL"] = PreTerm(w)["F_COM_PULL"]
        /\ (Returned(w) /\ numAtomsLocal(w) > 0)
              => term[w]["F_COM_PULL"] = PreTerm(w)["F_COM_PULL"] + EnergyOf(density[w])

\* C6 witness: a worker with local atoms returned and its energy changed
C6_Witness ==
    \E w \in Workers :
        /\ Returned(w)
        /\ numAtomsLocal(w) > 0
        /\ term[w]["F_COM_PULL"] # PreTerm(w)["F_COM_PULL"]

\* C7: a step of calculateForces changes no input, no force entry outside
\* the worker's restrained indices and no energy term but F_COM_PULL.
C7_Frame ==
    [][ step' = step =>
          /\ x' = x /\ massT' = massT /\ localIndex' = localIndex
          /\ forceConstant' = forceConstant /\ nnodes' = nnodes
          /\ \A w \in Workers, s \in Slots :
                force'[w][s] # force[w][s] => s \in Restrained(w)
          /\ \A w \in Workers, t \in EnergyTerms :
                term'[w][t] # term[w][t] => t = "F_COM_PULL" ]_vars

\* C7 witness: a worker restrained on some but not all of its atoms has
\* added forces and energy
C7_Witness ==
    \E w \in Workers :
        /\ Returned(w)
        /\ numAtomsLocal(w) > 0
        /\ force[w] # PreForce(w)
        /\ term[w] # PreTerm(w)

\* C8 as claimed: throughout an evaluation the transformed coordinates, the
\* amplitudes and the per-particle forces have exactly N elements each.
C8_LengthsThroughoutEvaluation ==
    \A w \in Workers :
        InEvaluation(w) =>
            /\ Len(transformedCoordinates[w]) = numAtomsLocal(w)
            /\ Len(amplitudes[w]) = numAtomsLocal(w)
            /\ Len(forces[w]) = numAtomsLocal(w)

\* C8 as amended: in an evaluation with N > 0 the transformed coordinates
\* and the amplitudes have N elements from the coordinate copy on, the
\* per-particle forces from the force computation on, and element i of each
\* belongs to the i-th restrained index.
C8_LengthsWhenPopulated ==
    \A w \in Workers :
        /\ InEvaluation(w) =>
              /\ Len(transformedCoordinates[w]) = numAtomsLocal(w)
              /\ Len(amplitudes[w]) = numAtomsLocal(w)
              /\ \A i \in 1 .. numAtomsLocal(w) :
                    /\ transformedCoordinates[w][i] = LatticeCoordinate(w, localIndex[w][i])
                    /\ amplitudes[w][i] = massT[w][localIndex[w][i]]
        /\ pc[w] = "forced" =>
              /\ Len(forces[w]) = numAtomsLocal(w)
              /\ \A i \in 1 .. numAtomsLocal(w) :
                    forceConstant * forces[w][i]
                        = ForceOnAtom(w, localIndex[w][i], density[w])

\* C8 witness: the forces of a second evaluation are computed for a local
\* atom count that differs from the count at construction
C8_Witness ==
    \E w \in Workers :
        /\ pc[w] = "forced"
        /\ step = 2
        /\ numAtomsLocal(w) # NumParticles
        /\ numAtomsLocal(w) >= 2

C10_EnergyOncePerWorker ==
    (PAR /\ \A w \in Workers : Returned(w) /\ numAtomsLocal(w) > 0) =>
      LET complete == SingleWorkerDensity
      IN
        /\ \A w \in Workers :
              term[w]["F_COM_PULL"] - PreTerm(w)["F_COM_PULL"] = EnergyOf(complete)
        /\ SumTo([w \in Workers |-> term[w]["F_COM_PULL"] - PreTerm(w)["F_COM_PULL"]], nnodes)
              = nnodes * EnergyOf(complete)
        /\ SumTo([w \in Workers |->
                    SumTo([s \in Slots |-> force[w][s] - PreForce(w)[s]],
                          Cardinality(Slots))], nnodes)
              = SumTo([w \in Workers |->
                    SumTo([i \in 1 .. Len(localIndex[w]) |->
                              ForceOnAtom(w, localIndex[w][i], complete)],
                          Len(localIndex[w]))], nnodes)

\* C10 witness: all workers of a multi-worker run returned, each with atoms
\* and a non-zero energy
C10_Witness ==
    /\ PAR
    /\ \A w \in Workers : Returned(w) /\ numAtomsLocal(w) > 0
    /\ EnergyOf(SingleWorkerDensity) # 0

====
